---- MODULE Spec2Model ----
(***************************************************************************)
(* Model of the Turing-machine simulator: config_loader.Transition,        *)
(* MachineSpecification.transition_map, _transition_key, machine.Tape,     *)
(* TuringMachine._next_transition, TuringMachine.run,                      *)
(* TuringMachine.simulate_inputs, config_loader.load_specification and     *)
(* cli.main.                                                               *)
(*                                                                         *)
(* Python strings are TLA+ strings; an input string is the sequence of its *)
(* characters (Tape.__init__ enumerates it).  Optional[str] is a sequence  *)
(* of length 0 (None) or 1 (the value).  A dict is the sequence of its     *)
(* (key, value) entries in insertion order.                                *)
(***************************************************************************)
EXTENDS Integers, Sequences, FiniteSets, TLC

\* ------------------------------------------------------------------ bounds
MaxSteps == 3
MaxInputLen == 1
MaxRules == 2
MaxBatch == 2
MaxBatchRules == 1
MaxBatchSteps == 2
MaxTableRules == 3
MaxMainRules == 1
MaxMainLen == 1
MaxMainSteps == 2
MaxTapeInput == 2
MaxPosition == 1
MaxRadius == 1

\* ------------------------------------------------------- program constants
\* default radius of Tape.view
Radius == 20

ReasonFinal == "Estado final alcanzado"
ReasonNoTransition == "No existe transición definida"
ReasonStepLimit == "Se alcanzó el límite máximo de pasos"

\* ---------------------------------------------------------------- helpers
None == <<>>
Some(v) == <<v>>

Min(a, b) == IF a < b THEN a ELSE b
Max(a, b) == IF a > b THEN a ELSE b

\* ------------------------------------------------------------- Transition
Transition(initial_state, read_symbol, next_state, write_symbol, movement, initial_memory, next_memory) ==
    [initial_state |-> initial_state, read_symbol |-> read_symbol,
     next_state |-> next_state, write_symbol |-> write_symbol,
     movement |-> movement, initial_memory |-> initial_memory,
     next_memory |-> next_memory]

\* f"{state}|{symbol}|{memory or '*'}": None and the empty string are falsy
transition_key(st, symbol, mem) ==
    st \o "|" \o symbol \o "|" \o
        (IF mem = None \/ mem = Some("") THEN "*" ELSE mem[1])

\* dict assignment mapping[key] = value: an existing key keeps its place
dict_has(d, key) == \E i \in 1..Len(d) : d[i].key = key
dict_get(d, key) == d[CHOOSE i \in 1..Len(d) : d[i].key = key].value
\* mutant of dict_set: an existing key keeps its value (setdefault)
dict_set_keeps_first(d, key, value) ==
    IF dict_has(d, key) THEN d
    ELSE Append(d, [key |-> key, value |-> value])

dict_set(d, key, value) ==
    IF dict_has(d, key)
    THEN [i \in 1..Len(d) |->
            IF d[i].key = key THEN [key |-> key, value |-> value] ELSE d[i]]
    ELSE Append(d, [key |-> key, value |-> value])
dict_keys(d) == [i \in 1..Len(d) |-> d[i].key]

\* MachineSpecification.transition_map: the loop over self.transitions
RECURSIVE transition_map_loop(_, _, _)
transition_map_loop(transitions, i, mapping) ==
    IF i > Len(transitions) THEN mapping
    ELSE transition_map_loop(transitions, i + 1,
            dict_set(mapping,
                     transition_key(transitions[i].initial_state,
                                    transitions[i].read_symbol,
                                    transitions[i].initial_memory),
                     transitions[i]))

spec_transition_map(transitions) == transition_map_loop(transitions, 1, <<>>)

\* TuringMachine._next_transition; the result is Optional[Transition]
next_transition(tmap, st, symbol, mem) ==
    LET key == transition_key(st, symbol, mem)
        wild == transition_key(st, symbol, None)
    IN  IF dict_has(tmap, key) THEN Some(dict_get(tmap, key))
        ELSE IF dict_has(tmap, wild) THEN Some(dict_get(tmap, wild))
        ELSE None

\* mutant of Tape: max_index stays 0 whatever the length of the input
Tape_max_index_zero(blank_symbol, initial_input) ==
    [blank_symbol |-> blank_symbol,
     cells |-> IF Len(initial_input) = 0
               THEN (0 :> blank_symbol)
               ELSE [i \in 0..(Len(initial_input) - 1) |-> initial_input[i + 1]],
     min_index |-> 0,
     max_index |-> 0]

\* ------------------------------------------------------------------- Tape
Tape(blank_symbol, initial_input) ==
    [blank_symbol |-> blank_symbol,
     cells |-> IF Len(initial_input) = 0
               THEN (0 :> blank_symbol)
               ELSE [i \in 0..(Len(initial_input) - 1) |-> initial_input[i + 1]],
     min_index |-> 0,
     max_index |-> IF Len(initial_input) = 0 THEN 0 ELSE Len(initial_input) - 1]

read(t, position) ==
    IF position \in DOMAIN t.cells THEN t.cells[position] ELSE t.blank_symbol

\* mutant of write: the cell is stored, min_index and max_index are left alone
write_keeps_bounds(t, position, symbol) ==
    [t EXCEPT !.cells = (position :> symbol) @@ t.cells]

\* mutant of write: a cell that already holds a symbol keeps it
write_keeps_existing(t, position, symbol) ==
    [t EXCEPT !.cells = t.cells @@ (position :> symbol),
              !.min_index = Min(t.min_index, position),
              !.max_index = Max(t.max_index, position)]

write(t, position, symbol) ==
    [t EXCEPT !.cells = (position :> symbol) @@ t.cells,
              !.min_index = Min(t.min_index, position),
              !.max_index = Max(t.max_index, position)]

\* mutant of view_cells: the window is head +- radius, the touched bounds unused
view_cells_window_only(t, head, radius) ==
    LET start == head - radius
        end == head + radius
    IN  [k \in 1..(end - start + 1) |->
            LET index == start + k - 1
            IN  IF index = head THEN "[" \o read(t, index) \o "]"
                ELSE read(t, index)]

\* the list `cells` built by Tape.view, one entry per position
view_cells(t, head, radius) ==
    LET start == Min(t.min_index, head - radius)
        end == Max(t.max_index, head + radius)
    IN  [k \in 1..(end - start + 1) |->
            LET index == start + k - 1
            IN  IF index = head THEN "[" \o read(t, index) \o "]"
                ELSE read(t, index)]

RECURSIVE join(_, _)
join(cells, k) == IF k > Len(cells) THEN "" ELSE cells[k] \o join(cells, k + 1)

view(t, head, radius) == join(view_cells(t, head, radius), 1)

\* -------------------------------------------------- model input universe
States == {"q0", "q1"}
InputAlphabet == {"1"}
TapeAlphabet == {"1", "_"}
MemoryAlphabet == {"A", "*"}
Blank == "_"

\* transition rules the specifications are assembled from
TransitionPool ==
    { Transition("q0", "1", "q0", "1", "R", None, None),
      Transition("q0", "1", "q1", "_", "S", Some("A"), None),
      Transition("q0", "1", "q1", "1", "L", Some("*"), Some("A")),
      Transition("q0", "_", "q0", "1", "L", None, Some("*")),
      Transition("q1", "_", "q0", "_", "R", None, None) }

SeqsUpTo(S, n) == UNION { [1..k -> S] : k \in 0..n }

InputStrings == SeqsUpTo(InputAlphabet, MaxInputLen)

\* MachineSpecification as load_specification builds it from a file with the
\* memory block {alphabet: MemoryAlphabet, initial: v} or with none
MachineSpecification(final_states, transitions, initial_memory) ==
    [states |-> States, initial_state |-> "q0", final_states |-> final_states,
     input_alphabet |-> InputAlphabet, tape_alphabet |-> TapeAlphabet,
     blank_symbol |-> Blank, transitions |-> transitions,
     memory_alphabet |-> IF initial_memory = None THEN None
                         ELSE Some(MemoryAlphabet),
     initial_memory |-> initial_memory]

Specifications(maxRules) ==
    { MachineSpecification(f, ts, m) :
        f \in SUBSET States,
        ts \in SeqsUpTo(TransitionPool, maxRules),
        m \in {None} \cup { Some(v) : v \in MemoryAlphabet } }

\* ------------------------------------------------- load_specification, main
\* the characters a string of the command line or of simulation_strings is
\* made of: one of the input alphabet and one of no alphabet of the machine
CommandLineSymbols == InputAlphabet \cup {"2"}

\* the delta entries of a file: rules of the pool, a rule whose output memory
\* is in no memory alphabet, and a rule that writes a symbol outside the
\* tape alphabet
DeltaPool ==
    { Transition("q0", "1", "q0", "1", "R", None, None),
      Transition("q0", "_", "q0", "1", "L", None, Some("*")),
      Transition("q0", "1", "q1", "_", "S", None, Some("Z")),
      Transition("q0", "1", "q1", "2", "R", None, None) }

\* the parsed file: the blocks q_states.final, alphabet.input, memory, delta
Configs ==
    [final : SUBSET States,
     input : {InputAlphabet, CommandLineSymbols},
     memory_alphabet : {None, Some(MemoryAlphabet)},
     memory_initial : {None, Some("A"), Some("Z")},
     delta : SeqsUpTo(DeltaPool, MaxMainRules)]

\* load_specification raises ValueError on none of its checks
load_ok(config) ==
    /\ config.final \subseteq States
    /\ config.input # {}
    /\ Blank \in TapeAlphabet
    /\ config.memory_alphabet # None
          => /\ config.memory_initial # None
             /\ config.memory_initial[1] \in config.memory_alphabet[1]
    /\ \A index \in 1..Len(config.delta) :
          LET raw == config.delta[index]
          IN  /\ raw.initial_state \in States
              /\ raw.read_symbol \in TapeAlphabet
              /\ (raw.initial_memory # None /\ config.memory_alphabet # None)
                    => raw.initial_memory[1] \in config.memory_alphabet[1]
              /\ raw.next_state \in States
              /\ raw.write_symbol \in TapeAlphabet
              /\ raw.movement \in {"L", "R", "S"}
              /\ (raw.next_memory # None /\ config.memory_alphabet # None)
                    => raw.next_memory[1] \in config.memory_alphabet[1]

\* the MachineSpecification load_specification returns
load_specification(config) ==
    [states |-> States, initial_state |-> "q0", final_states |-> config.final,
     input_alphabet |-> config.input, tape_alphabet |-> TapeAlphabet,
     blank_symbol |-> Blank, transitions |-> config.delta,
     memory_alphabet |-> config.memory_alphabet,
     initial_memory |-> config.memory_initial]

LoadedSpecifications ==
    { load_specification(config) : config \in { c \in Configs : load_ok(c) } }

\* ------------------------------------------------------------------ state
VARIABLES
    spec,            \* TuringMachine.spec
    transition_map,  \* TuringMachine.transition_map
    inputs,          \* simulate_inputs: the list of strings
    max_steps,       \* simulate_inputs / run: max_steps
    capture_ids,     \* simulate_inputs / run: capture_ids
    results,         \* simulate_inputs: the dict results
    next_input,      \* simulate_inputs: position of the for loop in inputs
    input_string,    \* run: the argument
    tape,            \* run: local tape
    state,           \* run: local state
    head_position,   \* run: local head_position
    memory,          \* run: local memory
    ids,             \* run: local ids
    steps,           \* run: local steps
    result,          \* run: the MachineResult returned (None before return)
    pc,              \* "idle", "loop", "returned", "done"
    applied,         \* history: transitions applied by the current run
    entered,         \* history: states entered by those transitions
    query,           \* _next_transition: arguments of the last call (or None)
    transition,      \* run: local transition, the value the last call returned
    origin,          \* history: per key of results, the run that stored it
    written,         \* history: per position, the symbol last written to tape
    tape_call        \* the last call of a Tape method made on tape directly

vars == <<spec, transition_map, inputs, max_steps, capture_ids, results,
          next_input, input_string, tape, state, head_position, memory, ids,
          steps, result, pc, applied, entered, query, transition, origin,
          written, tape_call>>

machine_vars == <<spec, transition_map>>
call_vars == <<inputs, max_steps, capture_ids>>
run_vars == <<input_string, tape, state, head_position, memory, ids, steps,
              applied, entered, written>>
lookup_vars == <<query, transition>>

\* --------------------------------------------------------- run, as a step
InstantaneousDescription(step, st, head, tape_view, mem) ==
    [step |-> step, state |-> st, head_position |-> head,
     tape_view |-> tape_view, memory |-> mem]

MachineResult(accepted, halted, reason, nsteps, idlist) ==
    [accepted |-> accepted, halted |-> halted, reason |-> reason,
     steps |-> nsteps, ids |-> idlist]

\* mutant of capture: the step counter is advanced where the snapshot is taken
capture_counts_step(loc, capturing) ==
    IF capturing
    THEN [loc EXCEPT !.ids = Append(loc.ids,
            InstantaneousDescription(loc.steps, loc.state, loc.head_position,
                view(loc.tape, loc.head_position, Radius), loc.memory)),
                     !.steps = loc.steps + 1]
    ELSE loc

\* mutant of capture: the flag capture_ids is not consulted
capture_always(loc, capturing) ==
    [loc EXCEPT !.ids = Append(loc.ids,
        InstantaneousDescription(loc.steps, loc.state, loc.head_position,
            view(loc.tape, loc.head_position, Radius), loc.memory))]

\* the closure capture() of run, on the run's locals
capture(loc, capturing) ==
    IF capturing
    THEN [loc EXCEPT !.ids = Append(loc.ids,
            InstantaneousDescription(loc.steps, loc.state, loc.head_position,
                view(loc.tape, loc.head_position, Radius), loc.memory))]
    ELSE loc

\* run, lines 102-122: the locals at the first evaluation of the while test
run_entry(sp, str, capturing) ==
    capture([tape |-> Tape(sp.blank_symbol, str), state |-> sp.initial_state,
             head_position |-> 0, memory |-> sp.initial_memory,
             ids |-> <<>>, steps |-> 0], capturing)

\* mutant of loop_test: the bound is tested inclusively
loop_test_inclusive(nsteps, limit) == nsteps <= limit

\* the while test of run
loop_test(nsteps, limit) == nsteps < limit

\* membership test `state in self.spec.final_states`
is_final(sp, st) == st \in sp.final_states

\* mutant of apply_transition: the snapshot after the transition is omitted
apply_transition_no_capture(loc, rule, capturing) ==
    [tape |-> write(loc.tape, loc.head_position, rule.write_symbol),
     head_position |->
        IF rule.movement = "R" THEN loc.head_position + 1
        ELSE IF rule.movement = "L" THEN loc.head_position - 1
        ELSE loc.head_position,
     state |-> rule.next_state,
     memory |-> IF rule.next_memory # None
                THEN rule.next_memory ELSE loc.memory,
     steps |-> loc.steps + 1,
     ids |-> loc.ids]

\* mutant of apply_transition: the snapshot is taken before the transition
apply_transition_capture_first(loc, rule, capturing) ==
    [tape |-> write(loc.tape, loc.head_position, rule.write_symbol),
     head_position |->
        IF rule.movement = "R" THEN loc.head_position + 1
        ELSE IF rule.movement = "L" THEN loc.head_position - 1
        ELSE loc.head_position,
     state |-> rule.next_state,
     memory |-> IF rule.next_memory # None
                THEN rule.next_memory ELSE loc.memory,
     steps |-> loc.steps + 1,
     ids |-> capture(loc, capturing).ids]

\* mutant of apply_transition: memory is always set to the rule's to_memory
apply_transition_overwrites_memory(loc, rule, capturing) ==
    capture([tape |-> write(loc.tape, loc.head_position, rule.write_symbol),
             head_position |->
                IF rule.movement = "R" THEN loc.head_position + 1
                ELSE IF rule.movement = "L" THEN loc.head_position - 1
                ELSE loc.head_position,
             state |-> rule.next_state,
             memory |-> rule.next_memory,
             steps |-> loc.steps + 1,
             ids |-> loc.ids], capturing)

\* run, lines 138-147: write, move, change state and memory, count, capture
apply_transition(loc, rule, capturing) ==
    capture([tape |-> write(loc.tape, loc.head_position, rule.write_symbol),
             head_position |->
                IF rule.movement = "R" THEN loc.head_position + 1
                ELSE IF rule.movement = "L" THEN loc.head_position - 1
                ELSE loc.head_position,
             state |-> rule.next_state,
             memory |-> IF rule.next_memory # None
                        THEN rule.next_memory ELSE loc.memory,
             steps |-> loc.steps + 1,
             ids |-> loc.ids], capturing)

\* mutant of no_transition_result: a missing transition always rejects
no_transition_result_rejects(sp, loc) ==
    MachineResult(FALSE, TRUE, ReasonNoTransition, loc.steps, loc.ids)

\* mutant of no_transition_result: the halting step is counted as a step
no_transition_result_counts_step(sp, loc) ==
    LET halted == is_final(sp, loc.state)
    IN  MachineResult(halted, TRUE,
                      IF halted THEN ReasonFinal ELSE ReasonNoTransition,
                      loc.steps + 1, loc.ids)

\* mutant of no_transition_result: the local `halted` is passed as halted too
no_transition_result_halted_flag(sp, loc) ==
    LET halted == is_final(sp, loc.state)
    IN  MachineResult(halted, halted,
                      IF halted THEN ReasonFinal ELSE ReasonNoTransition,
                      loc.steps, loc.ids)

\* run, lines 127-136: the result when no transition is defined
no_transition_result(sp, loc) ==
    LET halted == is_final(sp, loc.state)
    IN  MachineResult(halted, TRUE,
                      IF halted THEN ReasonFinal ELSE ReasonNoTransition,
                      loc.steps, loc.ids)

\* run, lines 149-156
final_state_result(loc) ==
    MachineResult(TRUE, TRUE, ReasonFinal, loc.steps, loc.ids)

\* mutant of step_limit_result: exhaustion is reported as a halt
step_limit_result_halted(loc) ==
    MachineResult(FALSE, TRUE, ReasonStepLimit, loc.steps, loc.ids)

\* run, lines 158-164
step_limit_result(loc) ==
    MachineResult(FALSE, FALSE, ReasonStepLimit, loc.steps, loc.ids)

\* run as a function of its arguments: the while loop from given locals
RECURSIVE run_loop(_, _, _, _, _)
run_loop(sp, tmap, loc, limit, capturing) ==
    IF ~loop_test(loc.steps, limit) THEN step_limit_result(loc)
    ELSE LET found == next_transition(tmap, loc.state,
                                      read(loc.tape, loc.head_position),
                                      loc.memory)
         IN  IF found = None THEN no_transition_result(sp, loc)
             ELSE LET new == apply_transition(loc, found[1], capturing)
                  IN  IF is_final(sp, new.state) THEN final_state_result(new)
                      ELSE run_loop(sp, tmap, new, limit, capturing)

\* a run on a machine newly built from the specification
run(sp, str, limit, capturing) ==
    run_loop(sp, spec_transition_map(sp.transitions),
             run_entry(sp, str, capturing), limit, capturing)

Locals == [tape |-> tape, state |-> state, head_position |-> head_position,
           memory |-> memory, ids |-> ids, steps |-> steps]

SetLocals(loc) ==
    /\ tape' = loc.tape
    /\ state' = loc.state
    /\ head_position' = loc.head_position
    /\ memory' = loc.memory
    /\ ids' = loc.ids
    /\ steps' = loc.steps

\* ---------------------------------------------------------------- actions
InitWith(specs, batches, limit) ==
    /\ spec \in specs
    /\ transition_map = spec_transition_map(spec.transitions)
    /\ inputs \in batches
    /\ max_steps \in 0..limit
    /\ capture_ids \in BOOLEAN
    /\ results = <<>>
    /\ next_input = 1
    /\ input_string = <<>>
    /\ tape = Tape(spec.blank_symbol, <<>>)
    /\ state = spec.initial_state
    /\ head_position = 0
    /\ memory = spec.initial_memory
    /\ ids = <<>>
    /\ steps = 0
    /\ result = None
    /\ pc = "idle"
    /\ applied = 0
    /\ entered = {}
    /\ query = None
    /\ transition = None
    /\ origin = <<>>
    /\ written = <<>>
    /\ tape_call = None

\* one call of run on a machine with up to MaxRules rules
Init == InitWith(Specifications(MaxRules), [1..1 -> InputStrings], MaxSteps)

\* the strings a batch is made of: the empty string and a one-symbol string
BatchStrings == {<<>>, <<"1">>}

\* a batch of MaxBatch strings on a machine with up to MaxBatchRules rules
InitBatch ==
    InitWith(Specifications(MaxBatchRules), [1..MaxBatch -> BatchStrings],
             MaxBatchSteps)

\* main: the specification is loaded, the machine built, and simulate_inputs
\* called on the strings of the command line (or simulation_strings)
InitMain ==
    InitWith(LoadedSpecifications,
             [1..1 -> SeqsUpTo(CommandLineSymbols, MaxMainLen)], MaxMainSteps)

\* mutant of RunBegin: the memory register is kept from the previous run
RunBegin_keeps_memory ==
    /\ pc = "idle"
    /\ next_input <= Len(inputs)
    /\ input_string' = inputs[next_input]
    /\ SetLocals(capture([tape |-> Tape(spec.blank_symbol, inputs[next_input]),
                          state |-> spec.initial_state, head_position |-> 0,
                          memory |-> memory, ids |-> <<>>, steps |-> 0],
                         capture_ids))
    /\ result' = None
    /\ applied' = 0
    /\ entered' = {}
    /\ written' = <<>>
    /\ query' = None
    /\ transition' = None
    /\ pc' = "loop"
    /\ UNCHANGED <<machine_vars, call_vars, results, origin, next_input, tape_call>>

\* mutant of RunBegin: the tape of the previous run is reused, not rebuilt
RunBegin_reuses_tape ==
    /\ pc = "idle"
    /\ next_input <= Len(inputs)
    /\ input_string' = inputs[next_input]
    /\ SetLocals(capture([tape |-> IF next_input = 1
                                   THEN Tape(spec.blank_symbol, inputs[next_input])
                                   ELSE tape,
                          state |-> spec.initial_state, head_position |-> 0,
                          memory |-> spec.initial_memory, ids |-> <<>>,
                          steps |-> 0],
                         capture_ids))
    /\ result' = None
    /\ applied' = 0
    /\ entered' = {}
    /\ written' = <<>>
    /\ query' = None
    /\ transition' = None
    /\ pc' = "loop"
    /\ UNCHANGED <<machine_vars, call_vars, results, origin, next_input, tape_call>>

\* simulate_inputs calls run on the next string; run reaches its while test
RunBegin ==
    /\ pc = "idle"
    /\ next_input <= Len(inputs)
    /\ input_string' = inputs[next_input]
    /\ SetLocals(run_entry(spec, inputs[next_input], capture_ids))
    /\ result' = None
    /\ applied' = 0
    /\ entered' = {}
    /\ written' = <<>>
    /\ query' = None
    /\ transition' = None
    /\ pc' = "loop"
    /\ UNCHANGED <<machine_vars, call_vars, results, origin, next_input, tape_call>>

\* the while test holds and no transition is defined: run returns
NoTransition ==
    /\ pc = "loop"
    /\ loop_test(steps, max_steps)
    /\ next_transition(transition_map, state, read(tape, head_position), memory) = None
    /\ query' = <<state, read(tape, head_position), memory>>
    /\ transition' = None
    /\ result' = Some(no_transition_result(spec, Locals))
    /\ pc' = "returned"
    /\ UNCHANGED <<machine_vars, call_vars, results, origin, next_input, run_vars,
                   tape_call>>

\* the while test holds and a transition is defined: one iteration of the loop
ApplyTransition ==
    /\ pc = "loop"
    /\ loop_test(steps, max_steps)
    /\ LET found == next_transition(transition_map, state,
                                    read(tape, head_position), memory)
       IN  /\ found # None
           /\ LET loc == apply_transition(Locals, found[1], capture_ids)
              IN  /\ SetLocals(loc)
                  /\ query' = <<state, read(tape, head_position), memory>>
                  /\ transition' = found
                  /\ written' = (head_position :> found[1].write_symbol) @@ written
                  /\ applied' = applied + 1
                  /\ entered' = entered \cup {loc.state}
                  /\ IF is_final(spec, loc.state)
                     THEN /\ result' = Some(final_state_result(loc))
                          /\ pc' = "returned"
                     ELSE /\ result' = result
                          /\ pc' = "loop"
    /\ UNCHANGED <<machine_vars, call_vars, results, origin, next_input,
                   input_string, tape_call>>

\* the while test fails: run returns the step-limit result
StepLimit ==
    /\ pc = "loop"
    /\ ~loop_test(steps, max_steps)
    /\ result' = Some(step_limit_result(Locals))
    /\ pc' = "returned"
    /\ UNCHANGED <<machine_vars, call_vars, results, origin, next_input, run_vars,
                   lookup_vars, tape_call>>

\* simulate_inputs stores the returned result under the string
StoreResult ==
    /\ pc = "returned"
    /\ results' = dict_set(results, input_string, result[1])
    /\ origin' = dict_set(origin, input_string, next_input)
    /\ next_input' = next_input + 1
    /\ pc' = "idle"
    /\ UNCHANGED <<machine_vars, call_vars, run_vars, result, lookup_vars, tape_call>>

\* the for loop of simulate_inputs is exhausted: it returns results
Return ==
    /\ pc = "idle"
    /\ next_input > Len(inputs)
    /\ pc' = "done"
    /\ UNCHANGED <<machine_vars, call_vars, results, origin, next_input, run_vars,
                   result, lookup_vars, tape_call>>

Next ==
    \/ RunBegin
    \/ NoTransition
    \/ ApplyTransition
    \/ StepLimit
    \/ StoreResult
    \/ Return

Spec == Init /\ [][Next]_vars
SpecMain == InitMain /\ [][Next]_vars
SpecBatch == InitBatch /\ [][Next]_vars

\* ------------------------------------------- the Tape methods, on their own
Positions == (-MaxPosition)..MaxPosition

\* a tape newly constructed from a string, before any call on it
InitTape ==
    /\ spec = MachineSpecification({}, <<>>, None)
    /\ transition_map = spec_transition_map(spec.transitions)
    /\ inputs = <<>>
    /\ max_steps = 0
    /\ capture_ids = FALSE
    /\ results = <<>>
    /\ next_input = 1
    /\ input_string \in SeqsUpTo(InputAlphabet, MaxTapeInput)
    /\ tape = Tape(spec.blank_symbol, input_string)
    /\ state = spec.initial_state
    /\ head_position = 0
    /\ memory = spec.initial_memory
    /\ ids = <<>>
    /\ steps = 0
    /\ result = None
    /\ pc = "tape"
    /\ applied = 0
    /\ entered = {}
    /\ query = None
    /\ transition = None
    /\ origin = <<>>
    /\ written = <<>>
    /\ tape_call = None

not_tape_vars == <<machine_vars, call_vars, results, origin, next_input,
                   input_string, state, head_position, memory, ids, steps,
                   result, pc, applied, entered, lookup_vars>>

\* tape = Tape(blank_symbol, initial_input): the tape is built anew
TapeNew ==
    /\ pc = "tape"
    /\ \E initial_input \in SeqsUpTo(InputAlphabet, MaxTapeInput) :
          /\ input_string' = initial_input
          /\ tape' = Tape(spec.blank_symbol, initial_input)
          /\ tape_call' = Some([method |-> "__init__",
                                initial_input |-> initial_input])
    /\ written' = <<>>
    /\ UNCHANGED <<machine_vars, call_vars, results, origin, next_input, state,
                   head_position, memory, ids, steps, result, pc, applied,
                   entered, lookup_vars>>

\* tape.write(position, symbol)
TapeWrite ==
    /\ pc = "tape"
    /\ \E position \in Positions, symbol \in TapeAlphabet :
          /\ tape' = write(tape, position, symbol)
          /\ written' = (position :> symbol) @@ written
          /\ tape_call' = Some([method |-> "write", position |-> position,
                                symbol |-> symbol])
    /\ UNCHANGED not_tape_vars

\* mutant of TapeRead: the cell read is materialised (setdefault)
TapeRead_materialises ==
    /\ pc = "tape"
    /\ \E position \in Positions :
          /\ tape_call' = Some([method |-> "read", position |-> position,
                                value |-> read(tape, position)])
          /\ tape' = [tape EXCEPT !.cells =
                          (position :> read(tape, position)) @@ tape.cells]
    /\ UNCHANGED <<not_tape_vars, written>>

\* tape.read(position)
TapeRead ==
    /\ pc = "tape"
    /\ \E position \in Positions :
          tape_call' = Some([method |-> "read", position |-> position,
                             value |-> read(tape, position)])
    /\ UNCHANGED <<not_tape_vars, tape, written>>

\* tape.view(head_position, radius)
TapeView ==
    /\ pc = "tape"
    /\ \E head \in Positions, radius \in 0..MaxRadius :
          tape_call' = Some([method |-> "view", head |-> head, radius |-> radius,
                             cells |-> view_cells(tape, head, radius),
                             text |-> view(tape, head, radius)])
    /\ UNCHANGED <<not_tape_vars, tape, written>>

NextTape ==
    \/ TapeNew
    \/ TapeWrite
    \/ TapeRead
    \/ TapeView

SpecTape == InitTape /\ [][NextTape]_vars

\* ------------------------------------ the transition table, on its own
\* the pool, and a second rule for the key of its first one
TablePool ==
    TransitionPool \cup
        { Transition("q0", "1", "q1", "_", "L", None, Some("A")) }

MemoryValues == {None} \cup { Some(v) : v \in MemoryAlphabet }

\* a machine newly built from a list of up to MaxTableRules rules
InitTable ==
    /\ spec \in { MachineSpecification({}, ts, None) :
                     ts \in SeqsUpTo(TablePool, MaxTableRules) }
    /\ transition_map = spec_transition_map(spec.transitions)
    /\ inputs = <<>>
    /\ max_steps = 0
    /\ capture_ids = FALSE
    /\ results = <<>>
    /\ next_input = 1
    /\ input_string = <<>>
    /\ tape = Tape(spec.blank_symbol, <<>>)
    /\ state = spec.initial_state
    /\ head_position = 0
    /\ memory = spec.initial_memory
    /\ ids = <<>>
    /\ steps = 0
    /\ result = None
    /\ pc = "table"
    /\ applied = 0
    /\ entered = {}
    /\ query = None
    /\ transition = None
    /\ origin = <<>>
    /\ written = <<>>
    /\ tape_call = None

\* self._next_transition(state, symbol, memory)
Resolve ==
    /\ pc = "table"
    /\ \E st \in States, symbol \in TapeAlphabet, mem \in MemoryValues :
          /\ query' = <<st, symbol, mem>>
          /\ transition' = next_transition(transition_map, st, symbol, mem)
    /\ UNCHANGED <<machine_vars, call_vars, results, origin, next_input,
                   run_vars, result, pc, tape_call>>

NextTable == Resolve

SpecTable == InitTable /\ [][NextTable]_vars

TypeOK ==
    /\ pc \in {"idle", "loop", "returned", "done", "tape", "table"}
    /\ state \in States
    /\ steps \in 0..max_steps
    /\ next_input \in 1..(Len(inputs) + 1)

\* ================================================================ claims
Returned == pc = "returned"
TheResult == result[1]
FinalStates == spec.final_states
CurrentSymbol == read(tape, head_position)

HasRule(st, symbol, mem) ==
    \E i \in 1..Len(spec.transitions) :
        /\ spec.transitions[i].initial_state = st
        /\ spec.transitions[i].read_symbol = symbol
        /\ spec.transitions[i].initial_memory = mem

\* C1: whenever the run is about to resolve (state, symbol under the head,
\* memory) with a memory value in the register, and the transition list has
\* both a rule for exactly that memory value and a wildcard rule for the same
\* (state, symbol), resolution returns the memory-specific rule.
C1_SpecificRuleWins ==
    (/\ pc = "loop"
     /\ loop_test(steps, max_steps)
     /\ memory # None
     /\ HasRule(state, CurrentSymbol, memory)
     /\ HasRule(state, CurrentSymbol, None))
    => LET found == next_transition(transition_map, state, CurrentSymbol, memory)
       IN  found # None /\ found[1].initial_memory = memory

\* C2: for max_steps >= 1, the run returns accepted = true exactly when the
\* state at the moment it stops is in final_states, whatever the head position
\* and the tape contents are.
C2_AcceptedIffFinalState ==
    (Returned /\ max_steps >= 1)
    => (TheResult.accepted <=> state \in FinalStates)

\* C2 witness: a run accepted with the head away from the origin and a
\* non-blank symbol left on the tape.
C2_Witness ==
    /\ Returned
    /\ max_steps >= 1
    /\ TheResult.accepted
    /\ head_position # 0
    /\ \E p \in DOMAIN tape.cells : tape.cells[p] # spec.blank_symbol

\* C3: at every step boundary, a current state in final_states makes the run
\* halt there with accepted = true, and no transition is applied from it.
C3_FinalStateHaltsAtOnce ==
    [][(pc = "loop" /\ state \in FinalStates)
       => (/\ pc' = "returned"
           /\ result' # None
           /\ result'[1].accepted
           /\ applied' = applied)]_vars

\* C4: a run that applied max_steps transitions, none of them entering a
\* final state, returns accepted = false, halted = false, the step-limit
\* reason and steps = max_steps; and every result with halted = false has
\* steps = max_steps and accepted = false.
C4_StepLimitExhaustion ==
    Returned =>
        /\ (applied = max_steps /\ entered \cap FinalStates = {})
            => (/\ TheResult.accepted = FALSE
                /\ TheResult.halted = FALSE
                /\ TheResult.reason = ReasonStepLimit
                /\ TheResult.steps = max_steps)
        /\ (TheResult.halted = FALSE)
            => (TheResult.steps = max_steps /\ TheResult.accepted = FALSE)

\* C4 witness: a run stopped by the step limit after max_steps >= 2
\* transitions that moved the head.
C4_Witness ==
    /\ Returned
    /\ max_steps >= 2
    /\ applied = max_steps
    /\ TheResult.halted = FALSE
    /\ head_position # 0

\* C5: when the while test holds and resolution finds no rule, the run
\* returns at once with halted = true, steps = the transitions applied so
\* far, accepted and reason decided by membership of the current state in
\* final_states, and the tape, head, state and memory unchanged.
C5_NoTransitionHalt ==
    [][(/\ pc = "loop"
        /\ steps < max_steps
        /\ next_transition(transition_map, state, CurrentSymbol, memory) = None)
       => (/\ pc' = "returned"
           /\ result' # None
           /\ result'[1].halted = TRUE
           /\ result'[1].steps = applied
           /\ result'[1].accepted = (state \in FinalStates)
           /\ result'[1].reason = (IF state \in FinalStates THEN ReasonFinal
                                   ELSE ReasonNoTransition)
           /\ result'[1].ids = ids
           /\ tape' = tape
           /\ head_position' = head_position
           /\ state' = state
           /\ memory' = memory)]_vars

\* C5 witness: a no-transition halt after at least one applied transition.
C5_Witness ==
    /\ Returned
    /\ TheResult.reason = ReasonNoTransition
    /\ applied >= 1
    /\ steps < max_steps

\* C5 witness of the accepting case: no rule for a final initial state.
C5_WitnessAccepting ==
    /\ Returned
    /\ TheResult.reason = ReasonFinal
    /\ applied = 0

Outcome(r) == <<r.accepted, r.halted, r.reason>>

Outcomes ==
    { <<TRUE, TRUE, ReasonFinal>>,
      <<FALSE, TRUE, ReasonNoTransition>>,
      <<FALSE, FALSE, ReasonStepLimit>> }

\* C6: the result a run returns, and every result stored by simulate_inputs,
\* is one of (accepted, halted, final-state reason), (rejected, halted,
\* no-transition reason) and (rejected, not halted, step-limit reason).
C6_ThreeOutcomes ==
    /\ Returned => Outcome(TheResult) \in Outcomes
    /\ \A i \in 1..Len(results) : Outcome(results[i].value) \in Outcomes

\* C6 witness: simulate_inputs has returned and holds a result of a run that
\* halted for want of a transition.
C6_Witness ==
    /\ pc = "done"
    /\ \E i \in 1..Len(results) :
          Outcome(results[i].value) = <<FALSE, TRUE, ReasonNoTransition>>

\* C7: steps always equals the number of transitions the run has applied and
\* stays within 0..max_steps, and the steps of the result is that number.
C7_StepAccounting ==
    /\ steps = applied
    /\ 0 <= steps
    /\ steps <= max_steps
    /\ Returned => TheResult.steps = applied

\* C7 witness: a run that halted by itself after two or more transitions.
C7_Witness ==
    /\ Returned
    /\ TheResult.halted
    /\ TheResult.steps >= 2
    /\ TheResult.steps < max_steps

\* C8: with tracing enabled the result holds steps + 1 IDs when the run
\* halted (acceptance or no transition) and max_steps + 1 IDs when it was
\* stopped by the step limit.
C8_TraceLength ==
    (Returned /\ capture_ids)
    => /\ TheResult.halted => Len(TheResult.ids) = TheResult.steps + 1
       /\ ~TheResult.halted => Len(TheResult.ids) = max_steps + 1

\* C8 witness: a traced run that halted after at least two transitions.
C8_Witness ==
    /\ Returned
    /\ capture_ids
    /\ TheResult.halted
    /\ Len(TheResult.ids) >= 3

\* C8 witness of the step-limit case.
C8_WitnessStepLimit ==
    /\ Returned
    /\ capture_ids
    /\ ~TheResult.halted
    /\ Len(TheResult.ids) = MaxSteps + 1

C10_RunIndependence ==
    [][/\ (pc # "loop" /\ pc' = "loop")
            => (/\ tape' = Tape(spec.blank_symbol, input_string')
                /\ head_position' = 0
                /\ steps' = 0
                /\ state' = spec.initial_state
                /\ memory' = spec.initial_memory)
       /\ spec' = spec
       /\ transition_map' = transition_map
       /\ transition_map' = spec_transition_map(spec.transitions)
       /\ results' # results
            => \A i \in 1..Len(results') :
                  results'[i].value =
                      run(spec, results'[i].key, max_steps, capture_ids)]_vars

\* C10 witness: simulate_inputs has returned after runs of two different
\* strings, the first of which wrote its tape, moved its head and changed its
\* memory.
C10_Witness ==
    /\ pc = "done"
    /\ Len(results) = 2
    /\ LET first == results[1].value
       IN  /\ first.steps >= 2
           /\ first.ids # <<>>
           /\ first.ids[Len(first.ids)].memory # spec.initial_memory
           /\ first.ids[Len(first.ids)].head_position # 0

\* the distinct elements of a sequence, in order of first occurrence
RECURSIVE FirstOccurrences(_)
FirstOccurrences(seq) ==
    IF seq = <<>> THEN <<>>
    ELSE LET front == SubSeq(seq, 1, Len(seq) - 1)
             last == seq[Len(seq)]
         IN  IF \E i \in 1..Len(front) : front[i] = last
             THEN FirstOccurrences(front)
             ELSE Append(FirstOccurrences(front), last)

LastOccurrence(seq, x) ==
    CHOOSE i \in 1..Len(seq) :
        seq[i] = x /\ \A j \in (i + 1)..Len(seq) : seq[j] # x

\* the strings simulate_inputs has run and stored so far
Processed == SubSeq(inputs, 1, next_input - 1)

Probe == (-(MaxPosition + 1))..(MaxPosition + MaxTapeInput + 1)

\* what position p must hold, from the history of writes and the input
ExpectedSymbol(writes, initial_input, p) ==
    IF p \in DOMAIN writes THEN writes[p]
    ELSE IF p >= 0 /\ p < Len(initial_input) THEN initial_input[p + 1]
    ELSE Blank

CalledNow(method) ==
    /\ tape_call' # tape_call
    /\ tape_call'[1].method = method

\* C12: after any sequence of writes, read(p) is the symbol of the most recent
\* write at p, else the input character at p, else the blank symbol; a write
\* at p changes what is read at no other position; and a read returns that
\* symbol and leaves the tape as it was.
C12_TapeReadWrite ==
    [][/\ \A p \in Probe :
            read(tape', p) = ExpectedSymbol(written', input_string', p)
       /\ CalledNow("write")
            => /\ read(tape', tape_call'[1].position) = tape_call'[1].symbol
               /\ \A q \in Probe \ {tape_call'[1].position} :
                    read(tape', q) = read(tape, q)
       /\ CalledNow("read")
            => /\ tape' = tape
               /\ tape_call'[1].value =
                    ExpectedSymbol(written, input_string, tape_call'[1].position)]_vars

\* C12 witness: a read at a negative position returns a symbol that is not
\* blank and was written there, while a cell of the input that was never
\* written still holds its character.
C12_Witness ==
    /\ tape_call # None
    /\ tape_call[1].method = "read"
    /\ tape_call[1].position < 0
    /\ tape_call[1].position \in DOMAIN written
    /\ tape_call[1].value # Blank
    /\ Len(input_string) >= 2
    /\ 1 \notin DOMAIN written
    /\ read(tape, 1) = input_string[2]

\* the (from_state, read_symbol, from_memory-or-wildcard) of a rule
Triple(rule) == <<rule.initial_state, rule.read_symbol, rule.initial_memory>>

KeyOf(triple) == transition_key(triple[1], triple[2], triple[3])

Rules == spec.transitions

\* C13: when two rules of the list have the same (from_state, read_symbol,
\* from_memory-or-wildcard) and that triple has just been resolved, the table
\* holds under it the one declared last and the resolution returned that one.
C13_LastDeclarationWins ==
    \A i, j \in 1..Len(Rules) :
        (/\ i < j
         /\ Triple(Rules[i]) = Triple(Rules[j])
         /\ \A k \in (j + 1)..Len(Rules) : Triple(Rules[k]) # Triple(Rules[j])
         /\ query = Triple(Rules[j]))
        => /\ dict_has(transition_map, KeyOf(Triple(Rules[j])))
           /\ dict_get(transition_map, KeyOf(Triple(Rules[j]))) = Rules[j]
           /\ transition = Some(Rules[j])

Applicable(rule, st, symbol, mem) ==
    /\ rule.initial_state = st
    /\ rule.read_symbol = symbol
    /\ rule.initial_memory \in {mem, None}

\* C15: once (s, a, m) has been resolved, a rule returned has from_state s,
\* read_symbol a and from_memory m or absent; none is returned exactly when
\* the list has no such rule; and rules of the list with distinct triples
\* have distinct table keys.
C15_ResolutionSoundComplete ==
    query # None
    => /\ transition # None
            => Applicable(transition[1], query[1], query[2], query[3])
       /\ (transition = None)
            <=> ~\E i \in 1..Len(Rules) :
                    Applicable(Rules[i], query[1], query[2], query[3])
       /\ \A i, j \in 1..Len(Rules) :
            Triple(Rules[i]) # Triple(Rules[j])
                => KeyOf(Triple(Rules[i])) # KeyOf(Triple(Rules[j]))

\* the step is one iteration of the while loop of run
TransitionStep == applied' = applied + 1

Offset(movement) ==
    IF movement = "L" THEN -1 ELSE IF movement = "R" THEN 1 ELSE 0

\* C14: one iteration of the loop writes the resolved rule's write_symbol at
\* the head position held before the move and changes no other cell, moves
\* the head by -1 (L), +1 (R) or 0 (S), enters the rule's target state, sets
\* memory to the rule's to_memory when present and keeps it when absent, and
\* adds exactly 1 to the step counter.
C14_TransitionEffect ==
    [][TransitionStep =>
        LET rule == transition'[1]
        IN  /\ head_position \in DOMAIN tape'.cells
            /\ tape'.cells[head_position] = rule.write_symbol
            /\ DOMAIN tape'.cells = DOMAIN tape.cells \cup {head_position}
            /\ \A p \in DOMAIN tape.cells \ {head_position} :
                    tape'.cells[p] = tape.cells[p]
            /\ tape'.blank_symbol = tape.blank_symbol
            /\ rule.movement \in {"L", "R", "S"}
            /\ head_position' = head_position + Offset(rule.movement)
            /\ state' = rule.next_state
            /\ memory' = IF rule.next_memory # None THEN rule.next_memory
                         ELSE memory
            /\ steps' = steps + 1]_vars

\* a rule with no to_memory was applied to a register holding a value, and a
\* rule with a to_memory has replaced the register's value in the same run
C14_Witness ==
    /\ applied = 2
    /\ transition # None
    /\ transition[1].next_memory = None
    /\ memory # None
    /\ memory # spec.initial_memory
    /\ transition[1].movement = "R"
    /\ head_position - 1 \in DOMAIN written
    /\ read(tape, head_position - 1) = transition[1].write_symbol

\* the tape has just been constructed from input_string
Constructed == tape_call # None /\ tape_call[1].method = "__init__"

\* what the constructor leaves in the cells: the characters of the input from
\* position 0 on, or the blank symbol at position 0 for the empty input
InputOnTape ==
    /\ \A i \in 0..(Len(input_string) - 1) :
          i \in DOMAIN tape.cells /\ tape.cells[i] = input_string[i + 1]
    /\ Len(input_string) = 0
          => 0 \in DOMAIN tape.cells /\ tape.cells[0] = spec.blank_symbol

\* C16 as stated: right after construction the cells hold the input (or the
\* blank at 0) and min_index and max_index are both 0 whatever the length
\* of the input.
C16_BoundsStartAtZero ==
    Constructed => /\ InputOnTape
                   /\ tape.min_index = 0
                   /\ tape.max_index = 0

\* C16 amended: right after construction the cells hold the input (or the
\* blank at 0), min_index is 0 and max_index is the position of the last
\* character of the input, 0 for the empty input.
C16_TapeConstruction ==
    Constructed => /\ InputOnTape
                   /\ tape.min_index = 0
                   /\ tape.max_index = Max(0, Len(input_string) - 1)

\* a tape just built from a string of two characters
C16_Witness ==
    /\ Constructed
    /\ Len(input_string) = 2
    /\ tape.cells[1] = input_string[2]
    /\ tape.max_index = 1

\* a tape built from the empty string
C16_WitnessEmpty ==
    /\ Constructed
    /\ input_string = <<>>
    /\ tape.cells = (0 :> Blank)

\* C17: view(head, radius) has one entry for each position from
\* min(min_index, head - radius) to max(max_index, head + radius), in
\* increasing order; the entry of a position other than the head is
\* read(position), the entry of the head is read(head) in brackets and is the
\* only bracketed one; the string returned is the entries joined; and the call
\* leaves cells, min_index and max_index as they were.
C17_ViewWindow ==
    [][CalledNow("view") =>
        LET call == tape_call'[1]
            first == Min(tape.min_index, call.head - call.radius)
            last == Max(tape.max_index, call.head + call.radius)
            position(k) == first + k - 1
        IN  /\ Len(call.cells) = last - first + 1
            /\ \A k \in 1..Len(call.cells) :
                  IF position(k) = call.head
                  THEN call.cells[k] = "[" \o read(tape, call.head) \o "]"
                  ELSE /\ call.cells[k] = read(tape, position(k))
                       /\ Len(call.cells[k]) = 1
            /\ Cardinality({ k \in 1..Len(call.cells) :
                                Len(call.cells[k]) = 3 }) = 1
            /\ Len(call.text) = Len(call.cells) + 2
            /\ tape' = tape]_vars

\* a view whose head lies left of every touched cell while the touched cells
\* reach beyond head + radius on the right: the window is wider than
\* 2 * radius + 1 and shows a written symbol
C17_Witness ==
    /\ tape_call # None
    /\ tape_call[1].method = "view"
    /\ tape_call[1].head < tape.min_index
    /\ tape.max_index > tape_call[1].head + tape_call[1].radius
    /\ Len(tape_call[1].cells) > 2 * tape_call[1].radius + 1
    /\ \E p \in DOMAIN written : written[p] # read(Tape(Blank, input_string), p)

\* run is entered: the step from the call to the first test of the loop
RunEntered == pc = "idle" /\ pc' = "loop"

\* C18: with capture_ids, entering run leaves exactly one ID, taken before any
\* transition, with step 0, the initial state, head 0, the initial memory and
\* the view of the new tape; the i-th transition appends one ID with step i
\* and the state, head position, memory and tape view that result from it;
\* and no step of a run changes or removes an ID already in the list.
C18_SnapshotOrder ==
    [][capture_ids =>
        /\ RunEntered
            => /\ applied' = 0
               /\ ids' = << InstantaneousDescription(0, spec.initial_state, 0,
                              view(Tape(spec.blank_symbol, input_string'), 0, Radius),
                              spec.initial_memory) >>
        /\ TransitionStep
            => /\ Len(ids') = applied' + 1
               /\ ids' = Append(ids,
                     InstantaneousDescription(applied', state', head_position',
                         view(tape', head_position', Radius), memory'))
        /\ ~RunEntered
            => /\ Len(ids') >= Len(ids)
               /\ SubSeq(ids', 1, Len(ids)) = ids
        /\ pc' = "returned" => result'[1].ids = ids']_vars

\* a traced run returned after two transitions: three IDs, the last of them
\* differing from the first in head position, memory and tape view
C18_Witness ==
    /\ capture_ids
    /\ Returned
    /\ applied = 2
    /\ Len(TheResult.ids) = 3
    /\ TheResult.ids[3].step = 2
    /\ TheResult.ids[3].head_position # TheResult.ids[1].head_position
    /\ TheResult.ids[3].memory # TheResult.ids[1].memory
    /\ TheResult.ids[3].tape_view # TheResult.ids[1].tape_view

InRun == pc \in {"loop", "returned"}

\* C19: in every state of a run started by main, the input string is over
\* input_alphabet and every tape cell, materialised or not, holds a symbol
\* of tape_alphabet.
C19_TapeAlphabet ==
    InRun => /\ \A i \in 1..Len(input_string) :
                    input_string[i] \in spec.input_alphabet
             /\ \A p \in DOMAIN tape.cells : tape.cells[p] \in spec.tape_alphabet
             /\ tape.blank_symbol \in spec.tape_alphabet

\* C20: in every state of a run on a loaded specification the memory value
\* is absent or a member of memory_alphabet; with no memory_alphabet and no
\* initial_memory it is absent.
C20_MemoryInAlphabet ==
    InRun => /\ \/ memory = None
                \/ /\ spec.memory_alphabet # None
                   /\ memory[1] \in spec.memory_alphabet[1]
             /\ (spec.memory_alphabet = None /\ spec.initial_memory = None)
                    => memory = None

\* accepted, halted, reason and steps of a result
Verdict(r) == <<r.accepted, r.halted, r.reason, r.steps>>

\* C21: a run returns the same accepted, halted, reason and steps as the run
\* of the same string on the same specification with the same max_steps and
\* the opposite capture_ids, and without capture_ids its ID list is empty.
C21_TracingKeepsOutcome ==
    Returned
    => /\ Verdict(TheResult) =
              Verdict(run(spec, input_string, max_steps, ~capture_ids))
       /\ ~capture_ids => TheResult.ids = <<>>
       /\ capture_ids
              => run(spec, input_string, max_steps, FALSE).ids = <<>>

\* an untraced run returned after two transitions, while the traced run of
\* the same string has three IDs
C21_Witness ==
    /\ Returned
    /\ ~capture_ids
    /\ applied = 2
    /\ TheResult.steps = 2
    /\ TheResult.ids = <<>>
    /\ Len(run(spec, input_string, max_steps, TRUE).ids) = 3

\* min_index <= 0 <= max_index and every materialised cell lies between them
BoundsCoverCells ==
    /\ tape.min_index <= 0
    /\ 0 <= tape.max_index
    /\ \A p \in DOMAIN tape.cells : tape.min_index <= p /\ p <= tape.max_index

\* C22: after construction and after any writes, min_index <= 0 <= max_index
\* and every materialised cell position lies in [min_index, max_index]; in a
\* run the head position h satisfies |h| <= steps and
\* min_index - 1 <= h <= max_index + 1.
C22_TapeBounds ==
    /\ BoundsCoverCells
    /\ InRun => /\ -steps <= head_position
                /\ head_position <= steps
                /\ tape.min_index - 1 <= head_position
                /\ head_position <= tape.max_index + 1

\* a run that moved left twice: cells materialised left of 0, the head one
\* cell left of min_index and as far from 0 as the steps allow
C22_Witness ==
    /\ InRun
    /\ steps = 2
    /\ tape.min_index < 0
    /\ tape.min_index \in DOMAIN tape.cells
    /\ head_position = tape.min_index - 1
    /\ head_position = -steps

\* a run that moved right off the input: the head one cell right of max_index
C22_WitnessRight ==
    /\ InRun
    /\ steps >= 1
    /\ head_position = tape.max_index + 1
    /\ head_position = steps

====
